---------------------------- MODULE Spec2Model ----------------------------
(***************************************************************************)
(* A model of sync_timestamps.py: the subtitle resynchronisation tool.    *)
(*                                                                         *)
(* Text is modelled at character level.  A character is its Unicode code  *)
(* point (a natural number), a line is a sequence of characters, and a    *)
(* file is the sequence of its newline-terminated lines, which is what    *)
(* str.splitlines() returns for it, so no line holds a line-break         *)
(* character.  File names are sequences of characters too.  The three     *)
(* directories of a run (new, old, output) are distinct directories.      *)
(***************************************************************************)
EXTENDS Integers, Sequences, FiniteSets, TLC

(***************************************************************************)
(* Bounds of the model.                                                    *)
(***************************************************************************)
\* Most blocks in a file of the single-pair layouts.
MaxEntries == 3
\* Most lines in a file handed to the parser on its own.
MaxLines == 5

(***************************************************************************)
(* Characters and strings.                                                 *)
(***************************************************************************)
\* U+FEFF, the byte-order mark.
BOM == 65279
\* ARABIC_RE: the range U+0600..U+06FF
ArabicFirst == 1536
ArabicLast == 1791
\* name[:15]
KeyLen == 15

\* The characters str.isspace() accepts that can occur inside a line
\* (the others are line breaks for str.splitlines()).
WhiteSpace == {9, 31, 32, 160, 5760, 8239, 8287, 12288} \cup (8192..8202)

IsSpace(c) == c \in WhiteSpace

\* line.strip() == ""
IsBlank(line) == \A i \in 1..Len(line) : IsSpace(line[i])

RECURSIVE LStrip(_)
LStrip(s) == IF s # <<>> /\ IsSpace(Head(s)) THEN LStrip(Tail(s)) ELSE s

RECURSIVE RStrip(_)
RStrip(s) ==
    IF s # <<>> /\ IsSpace(s[Len(s)]) THEN RStrip(SubSeq(s, 1, Len(s) - 1)) ELSE s

\* str.strip()
Strip(s) == RStrip(LStrip(s))

\* str.split(): the maximal runs of non-whitespace characters, in order.
RECURSIVE SplitFrom(_, _, _)
SplitFrom(s, word, words) ==
    IF s = <<>>
    THEN IF word = <<>> THEN words ELSE Append(words, word)
    ELSE IF IsSpace(Head(s))
         THEN SplitFrom(Tail(s), <<>>,
                        IF word = <<>> THEN words ELSE Append(words, word))
         ELSE SplitFrom(Tail(s), Append(word, Head(s)), words)

Split(s) == SplitFrom(s, <<>>, <<>>)

\* " ".join(parts)
RECURSIVE JoinSpace(_)
JoinSpace(parts) ==
    IF parts = <<>> THEN <<>>
    ELSE IF Len(parts) = 1 THEN parts[1]
    ELSE parts[1] \o <<32>> \o JoinSpace(Tail(parts))

\* The value of a decimal digit character, -1 for any other character.
\* ASCII, Arabic-Indic and Extended Arabic-Indic digits are modelled.
DigitVal(c) ==
    IF c \in 48..57 THEN c - 48
    ELSE IF c \in 1632..1641 THEN c - 1632
    ELSE IF c \in 1776..1785 THEN c - 1776
    ELSE -1

IsDigit(c) == DigitVal(c) >= 0

\* The digits-and-underscores part of an integer literal: digits, with
\* single underscores allowed between two digits.
IsDigitBody(s) ==
    /\ s # <<>>
    /\ IsDigit(s[1])
    /\ IsDigit(s[Len(s)])
    /\ \A i \in 1..Len(s) : IsDigit(s[i]) \/ s[i] = 95
    /\ \A i \in 1..(Len(s) - 1) : ~(s[i] = 95 /\ s[i + 1] = 95)

RECURSIVE DigitsValue(_, _)
DigitsValue(s, acc) ==
    IF s = <<>> THEN acc
    ELSE IF Head(s) = 95 THEN DigitsValue(Tail(s), acc)
    ELSE DigitsValue(Tail(s), 10 * acc + DigitVal(Head(s)))

\* int(s): ok is FALSE where Python raises ValueError.
ParseInt(s) ==
    LET t == Strip(s)
        signed == t # <<>> /\ Head(t) \in {43, 45}
        body == IF signed THEN Tail(t) ELSE t
    IN  IF IsDigitBody(body)
        THEN [ok |-> TRUE,
              val |-> IF signed /\ Head(t) = 45
                      THEN 0 - DigitsValue(body, 0)
                      ELSE DigitsValue(body, 0)]
        ELSE [ok |-> FALSE, val |-> 0]

\* str(n) for an integer n, as the f-string of write_srt formats it.
RECURSIVE NatStr(_)
NatStr(n) == IF n < 10 THEN <<48 + n>> ELSE Append(NatStr(n \div 10), 48 + (n % 10))

IntStr(n) == IF n < 0 THEN <<45>> \o NatStr(0 - n) ELSE NatStr(n)

\* buf[0].lstrip(U+FEFF)
RECURSIVE LStripBOM(_)
LStripBOM(s) == IF s # <<>> /\ Head(s) = BOM THEN LStripBOM(Tail(s)) ELSE s

\* ARABIC_RE.search(l)
HasArabic(line) == \E i \in 1..Len(line) : line[i] \in ArabicFirst..ArabicLast

\* One side of a timestamp, \d{2}:\d{2}:\d{2},\d{3} -- twelve characters.
IsClock(s) ==
    /\ Len(s) = 12
    /\ \A i \in {1, 2, 4, 5, 7, 8, 10, 11, 12} : IsDigit(s[i])
    /\ s[3] = 58 /\ s[6] = 58 /\ s[9] = 44

\* \s*-->\s*
IsArrow(s) ==
    \E i \in 0..Len(s) :
        /\ i + 3 <= Len(s)
        /\ \A j \in 1..i : IsSpace(s[j])
        /\ s[i + 1] = 45 /\ s[i + 2] = 45 /\ s[i + 3] = 62
        /\ \A j \in (i + 4)..Len(s) : IsSpace(s[j])

\* TIMESTAMP_RE.match(line)
TIMESTAMP_RE(line) ==
    /\ Len(line) >= 27
    /\ IsClock(SubSeq(line, 1, 12))
    /\ IsArrow(SubSeq(line, 13, Len(line) - 12))
    /\ IsClock(SubSeq(line, Len(line) - 11, Len(line)))

\* make_key(name)
make_key(name) == SubSeq(name, 1, IF Len(name) < KeyLen THEN Len(name) ELSE KeyLen)

\* [f(x) for x in seq]
CollapseEach(lines) == [i \in 1..Len(lines) |-> JoinSpace(Split(lines[i]))]

\* normalize_text(lines)
normalize_text(lines) == Strip(JoinSpace(CollapseEach(lines)))

\* A filter that keeps every line.
AllLines(text_lines) == text_lines

\* not ARABIC_RE.search(l)
NotArabic(l) == ~HasArabic(l)

\* english_lines
EnglishLines(text_lines) == SelectSeq(text_lines, NotArabic)

\* The entry parse_srt appends for a block whose index parsed.
MakeEntry(idx, buf) ==
    [index |-> idx,
     timestamp |-> buf[2],
     text_lines |-> SubSeq(buf, 3, Len(buf)),
     norm_text |-> normalize_text(EnglishLines(SubSeq(buf, 3, Len(buf))))]

\* The loop of parse_srt over raw + [""], from line k on.  crashed is TRUE
\* where buf[1] raises IndexError; warnings holds the rejected index lines.
RECURSIVE ParseLoop(_, _, _, _, _)
ParseLoop(raw, k, buf, entries, warnings) ==
    IF k > Len(raw)
    THEN [crashed |-> FALSE, entries |-> entries, warnings |-> warnings]
    ELSE IF IsBlank(raw[k]) /\ buf # <<>>
    THEN LET idx == ParseInt(LStripBOM(buf[1])) IN
         IF ~idx.ok
         THEN ParseLoop(raw, k + 1, <<>>, entries, Append(warnings, buf[1]))
         ELSE IF Len(buf) < 2
         THEN [crashed |-> TRUE, entries |-> entries, warnings |-> warnings]
         ELSE ParseLoop(raw, k + 1, <<>>,
                        Append(entries, MakeEntry(idx.val, buf)), warnings)
    ELSE ParseLoop(raw, k + 1, Append(buf, raw[k]), entries, warnings)

\* path.read_text(encoding='utf-8-sig').splitlines(): one leading
\* byte-order mark of the file is dropped by the decoder.
ReadText(content) ==
    IF content # <<>> /\ content[1] # <<>> /\ content[1][1] = BOM
    THEN <<Tail(content[1])>> \o Tail(content)
    ELSE content

\* parse_srt(path), for the lines stored at path.
parse_srt(content) == ParseLoop(ReadText(content) \o << <<>> >>, 1, <<>>, <<>>, <<>>)

\* A writer that leaves out the empty line after an entry.
EntryLinesNoSeparator(e) == <<IntStr(e.index), e.timestamp>> \o e.text_lines

\* A writer that writes the lines used for matching only.
EntryLinesEnglish(e) ==
    <<IntStr(e.index), e.timestamp>> \o SelectSeq(e.text_lines, NotArabic)
        \o << <<>> >>

\* The lines write_srt writes for one entry.
EntryLines(e) == <<IntStr(e.index), e.timestamp>> \o e.text_lines \o << <<>> >>

\* write_srt(entries, out_path): the lines of the file written.
RECURSIVE write_srt(_)
write_srt(entries) ==
    IF entries = <<>> THEN <<>>
    ELSE EntryLines(Head(entries)) \o write_srt(Tail(entries))

(***************************************************************************)
(* The inputs: file names, timestamps, texts and file contents.            *)
(***************************************************************************)
\* "show.s01.ep.00", fourteen characters shared by the long file names.
Stem == <<115, 104, 111, 119, 46, 115, 48, 49, 46, 101, 112, 46, 48, 48>>

\* Three names with the same first fifteen characters, one with another
\* fifteenth character, and two short names.
NameA1 == Stem \o <<49, 97>>
NameA2 == Stem \o <<49, 98>>
NameA3 == Stem \o <<49>>
NameB == Stem \o <<50>>
NameC == <<99>>
NameD == <<100>>

\* "00:0m:0s,000"
Clock(m, s) == <<48, 48, 58, 48, 48 + m, 58, 48, 48 + s, 44, 48, 48, 48>>

\* "00:0m:0s,000 --> 00:0m:0t,000" with t = s + 1
Stamp(m, s) == Clock(m, s) \o <<32, 45, 45, 62, 32>> \o Clock(m, s + 1)

\* Text bodies.  LineA is "a"; LineA2 is " a " and normalises to "a" too;
\* LineB is "b  c"; LineAr holds the Arabic letter U+0645.
LineA == <<97>>
LineA2 == <<32, 97, 32>>
LineB == <<98, 32, 32, 99>>
LineAr == <<1605, 1585>>

NewTexts == {<<LineA>>, <<LineB>>, <<LineAr>>}
OldTexts == {<<LineA2, LineAr>>, <<LineAr>>}

\* A well-formed file: block i has index i, the timestamp of minute m and
\* second i, and the text texts[i]; blocks are separated by one empty line.
RECURSIVE BlocksFrom(_, _, _)
BlocksFrom(texts, m, i) ==
    IF i > Len(texts) THEN <<>>
    ELSE <<IntStr(i), Stamp(m, i)>> \o texts[i]
         \o (IF i < Len(texts) THEN << <<>> >> ELSE <<>>)
         \o BlocksFrom(texts, m, i + 1)

InputFile(texts, m) == BlocksFrom(texts, m, 1)

SeqsUpTo(S, n) == UNION {[1..k -> S] : k \in 0..n}

\* Files of the new directory carry minute 0, files of the old one minute 1.
NewFiles == {InputFile(t, 0) : t \in SeqsUpTo(NewTexts, MaxEntries)}
OldFiles == {InputFile(t, 1) : t \in SeqsUpTo(OldTexts, MaxEntries)}

\* The files of the layout with several files per directory.
SmallNew == {InputFile(<< <<LineA>> >>, 0),
             InputFile(<< <<LineA>>, <<LineB>> >>, 0)}
SmallOld == {InputFile(<< <<LineA>> >>, 1),
             InputFile(<< <<LineA>>, <<LineA2>> >>, 1),
             << <<49>> >>,
             << <<120>>, <<>>, <<50>>, Stamp(1, 2), LineB >>}

\* The lines of the files handed to the parser on its own: empty, blank,
\* "1", U+FEFF " +2", a timestamp, " a  b" and an Arabic line.
LinePool == {<<>>, <<32>>, <<49>>, <<BOM, 32, 43, 50>>,
             Stamp(0, 1), <<32, 97, 32, 32, 98>>, LineAr}

Perms(S) == {p \in [1..Cardinality(S) -> S] : \A x \in S : \E i \in DOMAIN p : p[i] = x}

File(content) == [is_file |-> TRUE, content |-> content]
SubDir == [is_file |-> FALSE, content |-> <<>>]

(***************************************************************************)
(* The state of a run of main(), and of a parse_srt/write_srt round trip.  *)
(***************************************************************************)
VARIABLES
    args_ok,      \* new_dir and old_dir are existing directories
    use_out_dir,  \* --out-dir was given
    new_dir,      \* the new directory: name -> [is_file, content]
    old_dir,      \* the old directory: name -> [is_file, content]
    out_dir,      \* the output directory: name -> content
    old_input,    \* the old directory as the run found it
    new_listing,  \* the order args.new_dir.iterdir() yields
    old_listing,  \* the order args.old_dir.iterdir() yields
    new_pos,      \* the next position of new_listing
    old_pos,      \* the next position of old_listing
    new_map,      \* key -> name of a file of the new directory
    pc,           \* where main() is
    exc,          \* the exception that ended the run, "" for none
    of,           \* the old file being processed
    nf,           \* its new file
    new_entries,
    old_entries,
    ts_map,       \* norm_text -> list of timestamps
    ei,           \* the next position of old_entries in the resolve loop
    stdout,
    stderr,
    p_pc,         \* where the round trip is
    p_text,       \* its input file
    p_first,      \* parse_srt of the input
    p_written,    \* write_srt of that
    p_second      \* parse_srt of what was written

mvars == <<args_ok, use_out_dir, new_dir, old_dir, out_dir, old_input,
           new_listing, old_listing, new_pos, old_pos, new_map, pc, exc,
           of, nf, new_entries, old_entries, ts_map, ei, stdout, stderr>>
pvars == <<p_pc, p_text, p_first, p_written, p_second>>
vars == <<mvars, pvars>>

\* A line of output: every kind of message has the same fields.
Msg(kind, file, key, index, text) ==
    [kind |-> kind, file |-> file, key |-> key, index |-> index, text |-> text,
     dir |-> ""]

NoParse == [crashed |-> FALSE, entries |-> <<>>, warnings |-> <<>>]

\* The variables main() sets, before it runs.
MainStart ==
    /\ new_pos = 1
    /\ old_pos = 1
    /\ new_map = <<>>
    /\ exc = ""
    /\ of = <<>>
    /\ nf = <<>>
    /\ new_entries = <<>>
    /\ old_entries = <<>>
    /\ ts_map = <<>>
    /\ ei = 1
    /\ stdout = <<>>
    /\ stderr = <<>>
    /\ out_dir = <<>>
    /\ old_input = old_dir

ParseIdle ==
    /\ p_pc = "idle"
    /\ p_text = <<>>
    /\ p_first = NoParse
    /\ p_written = <<>>
    /\ p_second = NoParse

\* One file in each directory, under the same name.
InitPair ==
    /\ args_ok = TRUE
    /\ use_out_dir \in BOOLEAN
    /\ \E c \in NewFiles : new_dir = (NameB :> File(c))
    /\ \E c \in OldFiles : old_dir = (NameB :> File(c))

\* Two new files with one key and a third with another; two old files with
\* the first key and one with a key no new file has.
InitShared ==
    /\ args_ok = TRUE
    /\ use_out_dir \in BOOLEAN
    /\ \E c1 \in SmallNew, c2 \in SmallNew :
         new_dir = (NameA1 :> File(c1)) @@ (NameA2 :> File(c2))
                   @@ (NameB :> File(InputFile(<< <<LineB>> >>, 0)))
    /\ \E c1 \in SmallOld, c2 \in SmallOld :
         old_dir = (NameA1 :> File(c1)) @@ (NameA3 :> File(c2))
                   @@ (NameC :> File(InputFile(<< <<LineA>> >>, 1)))

\* Three new files with one key, and directory entries that are not files;
\* or arguments that are not directories.
InitMixed ==
    /\ args_ok \in BOOLEAN
    /\ use_out_dir \in BOOLEAN
    /\ new_dir = (NameA1 :> File(InputFile(<< <<LineA>>, <<LineB>>, <<LineA>> >>, 0)))
                 @@ (NameA2 :> File(InputFile(<< <<LineB>>, <<LineA>> >>, 0)))
                 @@ (NameA3 :> File(InputFile(<< <<LineA>>, <<LineA>> >>, 0)))
                 @@ (NameC :> SubDir)
    /\ old_dir = (NameA1 :> File(InputFile(<< <<LineA>>, <<LineB, LineAr>>,
                                              <<LineA2>>, <<LineB>> >>, 1)))
                 @@ (NameC :> File(InputFile(<< <<LineA>> >>, 1)))
                 @@ (NameD :> SubDir)

Init ==
    /\ InitPair \/ InitShared \/ InitMixed
    /\ new_listing \in Perms(DOMAIN new_dir)
    /\ old_listing \in Perms(DOMAIN old_dir)
    /\ pc = "start"
    /\ MainStart
    /\ ParseIdle

(***************************************************************************)
(* main(): the mapping of the new files.                                   *)
(***************************************************************************)
\* p.error(...) unless both arguments are directories.
ValidateDirs ==
    /\ pc = "start"
    /\ IF args_ok
       THEN pc' = "map" /\ UNCHANGED <<exc, stderr>>
       ELSE /\ pc' = "usage_error"
            /\ exc' = "SystemExit"
            /\ stderr' = Append(stderr, Msg("usage", <<>>, <<>>, 0, <<>>))
    /\ UNCHANGED <<args_ok, use_out_dir, new_dir, old_dir, out_dir, old_input,
                   new_listing, old_listing, new_pos, old_pos, new_map, of, nf,
                   new_entries, old_entries, ts_map, ei, stdout, pvars>>

\* "Warning: duplicate key {k!r}, using {nf.name}"
DuplicateKeyMsg(k, name) == Msg("duplicate_key", name, k, 0, <<>>)

\* A mapping that keeps the first file of a key.
MapPutKeepFirst(m, k, name) == IF k \in DOMAIN m THEN m ELSE (k :> name) @@ m

\* new_map[k] = nf
MapPut(m, k, name) == (k :> name) @@ m

\* One step of the loop over args.new_dir.iterdir(), for a file.
MapNewFile ==
    /\ pc = "map"
    /\ new_pos <= Len(new_listing)
    /\ new_dir[new_listing[new_pos]].is_file
    /\ LET name == new_listing[new_pos]
           k == make_key(name)
       IN  /\ stderr' = IF k \in DOMAIN new_map
                        THEN Append(stderr, DuplicateKeyMsg(k, name))
                        ELSE stderr
           /\ new_map' = MapPut(new_map, k, name)
    /\ new_pos' = new_pos + 1
    /\ UNCHANGED <<args_ok, use_out_dir, new_dir, old_dir, out_dir, old_input,
                   new_listing, old_listing, old_pos, pc, exc, of, nf,
                   new_entries, old_entries, ts_map, ei, stdout, pvars>>

\* One step of that loop, for an entry that is not a file.
SkipNewEntry ==
    /\ pc = "map"
    /\ new_pos <= Len(new_listing)
    /\ ~new_dir[new_listing[new_pos]].is_file
    /\ new_pos' = new_pos + 1
    /\ UNCHANGED <<args_ok, use_out_dir, new_dir, old_dir, out_dir, old_input,
                   new_listing, old_listing, old_pos, new_map, pc, exc, of, nf,
                   new_entries, old_entries, ts_map, ei, stdout, stderr, pvars>>

\* The loop over the new directory ends.
EndNewLoop ==
    /\ pc = "map"
    /\ new_pos > Len(new_listing)
    /\ pc' = "old"
    /\ UNCHANGED <<args_ok, use_out_dir, new_dir, old_dir, out_dir, old_input,
                   new_listing, old_listing, new_pos, old_pos, new_map, exc, of,
                   nf, new_entries, old_entries, ts_map, ei, stdout, stderr,
                   pvars>>

(***************************************************************************)
(* main(): the loop over the old files.                                    *)
(***************************************************************************)
\* One step of the loop over args.old_dir.iterdir(), for an entry that is
\* not a file.
SkipOldEntry ==
    /\ pc = "old"
    /\ old_pos <= Len(old_listing)
    /\ ~old_dir[old_listing[old_pos]].is_file
    /\ old_pos' = old_pos + 1
    /\ UNCHANGED <<args_ok, use_out_dir, new_dir, old_dir, out_dir, old_input,
                   new_listing, old_listing, new_pos, new_map, pc, exc, of, nf,
                   new_entries, old_entries, ts_map, ei, stdout, stderr, pvars>>

\* "Skipping {of.name}: no new file for key '{key}'"
SkipUnmatched ==
    /\ pc = "old"
    /\ old_pos <= Len(old_listing)
    /\ old_dir[old_listing[old_pos]].is_file
    /\ make_key(old_listing[old_pos]) \notin DOMAIN new_map
    /\ stderr' = Append(stderr, Msg("skipping", old_listing[old_pos],
                                    make_key(old_listing[old_pos]), 0, <<>>))
    /\ old_pos' = old_pos + 1
    /\ UNCHANGED <<args_ok, use_out_dir, new_dir, old_dir, out_dir, old_input,
                   new_listing, old_listing, new_pos, new_map, pc, exc, of, nf,
                   new_entries, old_entries, ts_map, ei, stdout, pvars>>

\* ts_map.setdefault(e['norm_text'], []).append(e['timestamp']), for an
\* entry with a non-empty norm_text.
TsMapAdd(m, e) ==
    IF e.norm_text = <<>> THEN m
    ELSE IF e.norm_text \in DOMAIN m
    THEN [m EXCEPT ![e.norm_text] = Append(@, e.timestamp)]
    ELSE (e.norm_text :> <<e.timestamp>>) @@ m

RECURSIVE TsMapFrom(_, _)
TsMapFrom(entries, m) ==
    IF entries = <<>> THEN m
    ELSE TsMapFrom(Tail(entries), TsMapAdd(m, Head(entries)))

\* A mapping built once and kept from one pair to the next.
BuildTsMapOnce(entries) ==
    IF DOMAIN ts_map # {} THEN ts_map ELSE TsMapFrom(entries, <<>>)

\* ts_map = {} and the loop over new_entries.
BuildTsMap(entries) == TsMapFrom(entries, <<>>)

\* "Warning: invalid index '{buf[0]}' in {path.name}, skipping block"
RECURSIVE IndexWarnings(_, _)
IndexWarnings(lines, name) ==
    IF lines = <<>> THEN <<>>
    ELSE <<Msg("invalid_index", name, <<>>, 0, Head(lines))>>
         \o IndexWarnings(Tail(lines), name)

\* One step of the loop for a file with a new file: both files are parsed
\* (the new one first) and ts_map is built.
ParsePair ==
    /\ pc = "old"
    /\ old_pos <= Len(old_listing)
    /\ old_dir[old_listing[old_pos]].is_file
    /\ make_key(old_listing[old_pos]) \in DOMAIN new_map
    /\ LET name == old_listing[old_pos]
           newname == new_map[make_key(name)]
           pn == parse_srt(new_dir[newname].content)
           po == parse_srt(old_dir[name].content)
       IN  /\ of' = name
           /\ nf' = newname
           /\ IF pn.crashed
              THEN /\ stderr' = stderr \o IndexWarnings(pn.warnings, newname)
                   /\ pc' = "crashed"
                   /\ exc' = "IndexError in parse_srt"
                   /\ UNCHANGED <<new_entries, old_entries, ts_map, ei>>
              ELSE IF po.crashed
              THEN /\ stderr' = stderr \o IndexWarnings(pn.warnings, newname)
                                       \o IndexWarnings(po.warnings, name)
                   /\ pc' = "crashed"
                   /\ exc' = "IndexError in parse_srt"
                   /\ new_entries' = pn.entries
                   /\ UNCHANGED <<old_entries, ts_map, ei>>
              ELSE /\ stderr' = stderr \o IndexWarnings(pn.warnings, newname)
                                       \o IndexWarnings(po.warnings, name)
                   /\ pc' = "resolve"
                   /\ new_entries' = pn.entries
                   /\ old_entries' = po.entries
                   /\ ts_map' = BuildTsMap(pn.entries)
                   /\ ei' = 1
                   /\ UNCHANGED exc
    /\ old_pos' = old_pos + 1
    /\ UNCHANGED <<args_ok, use_out_dir, new_dir, old_dir, out_dir, old_input,
                   new_listing, old_listing, new_pos, new_map, stdout, pvars>>

\* A test that does not look at what is left of the list.
NoMatchUnlessKey(e, m) ==
    IF e.norm_text = <<>> THEN TRUE ELSE e.norm_text \notin DOMAIN m

\* not txt or txt not in ts_map or not ts_map[txt]
NoMatch(e, m) ==
    IF e.norm_text = <<>> THEN TRUE
    ELSE IF e.norm_text \notin DOMAIN m THEN TRUE
    ELSE m[e.norm_text] = <<>>

\* One step of the loop over old_entries, for an entry without a match.
\* shorten(txt, width=30) leaves a text of at most 30 characters as it is.
ResolveNoMatch ==
    /\ pc = "resolve"
    /\ ei <= Len(old_entries)
    /\ NoMatch(old_entries[ei], ts_map)
    /\ stdout' = Append(stdout, Msg("no_match", of, <<>>, old_entries[ei].index,
                                    old_entries[ei].norm_text))
    /\ ei' = ei + 1
    /\ UNCHANGED <<args_ok, use_out_dir, new_dir, old_dir, out_dir, old_input,
                   new_listing, old_listing, new_pos, old_pos, new_map, pc, exc,
                   of, nf, new_entries, old_entries, ts_map, stderr, pvars>>

\* lst.pop(): the last value instead of the first.
PopLast(lst) == [value |-> lst[Len(lst)], rest |-> SubSeq(lst, 1, Len(lst) - 1)]

\* lst.pop(0): the value returned and the list left.
PopFirst(lst) == [value |-> Head(lst), rest |-> Tail(lst)]

\* One step of the loop over old_entries, for an entry with a match.
\* lst.pop(0) raises IndexError for an empty list.
ResolveMatch ==
    /\ pc = "resolve"
    /\ ei <= Len(old_entries)
    /\ ~NoMatch(old_entries[ei], ts_map)
    /\ LET e == old_entries[ei]
           lst == ts_map[e.norm_text]
       IN  IF lst = <<>>
           THEN /\ pc' = "crashed"
                /\ exc' = "IndexError in main"
                /\ UNCHANGED <<old_entries, ts_map, ei, stderr>>
           ELSE /\ stderr' = IF Len(lst) > 1
                             THEN Append(stderr, Msg("duplicated_text", of, <<>>,
                                                     e.index, <<>>))
                             ELSE stderr
                /\ old_entries' = [old_entries EXCEPT
                                     ![ei].timestamp = PopFirst(lst).value]
                /\ ts_map' = [ts_map EXCEPT ![e.norm_text] = PopFirst(lst).rest]
                /\ ei' = ei + 1
                /\ UNCHANGED <<pc, exc>>
    /\ UNCHANGED <<args_ok, use_out_dir, new_dir, old_dir, out_dir, old_input,
                   new_listing, old_listing, new_pos, old_pos, new_map, of, nf,
                   new_entries, stdout, pvars>>

\* write_srt(old_entries, out_path) and the message that follows it.
WriteOut ==
    /\ pc = "resolve"
    /\ ei > Len(old_entries)
    /\ IF use_out_dir
       THEN /\ out_dir' = (of :> write_srt(old_entries)) @@ out_dir
            /\ UNCHANGED old_dir
       ELSE /\ old_dir' = [old_dir EXCEPT ![of].content = write_srt(old_entries)]
            /\ UNCHANGED out_dir
    /\ stdout' = Append(stdout, [Msg("written", of, <<>>, 0, <<>>) EXCEPT
                                   !.dir = IF use_out_dir THEN "out" ELSE "old"])
    /\ pc' = "old"
    /\ UNCHANGED <<args_ok, use_out_dir, new_dir, old_input, new_listing,
                   old_listing, new_pos, old_pos, new_map, exc, of, nf,
                   new_entries, old_entries, ts_map, ei, stderr, pvars>>

\* The loop over the old directory ends, and main() returns.
EndOldLoop ==
    /\ pc = "old"
    /\ old_pos > Len(old_listing)
    /\ pc' = "done"
    /\ UNCHANGED <<args_ok, use_out_dir, new_dir, old_dir, out_dir, old_input,
                   new_listing, old_listing, new_pos, old_pos, new_map, exc, of,
                   nf, new_entries, old_entries, ts_map, ei, stdout, stderr,
                   pvars>>

Next ==
    \/ ValidateDirs
    \/ MapNewFile
    \/ SkipNewEntry
    \/ EndNewLoop
    \/ SkipOldEntry
    \/ SkipUnmatched
    \/ ParsePair
    \/ ResolveNoMatch
    \/ ResolveMatch
    \/ WriteOut
    \/ EndOldLoop

Spec == Init /\ [][Next]_vars

(***************************************************************************)
(* parse_srt and write_srt on their own: a file is parsed, the entries are *)
(* written, and what was written is parsed again.                          *)
(***************************************************************************)
InitParse ==
    /\ p_text \in SeqsUpTo(LinePool, MaxLines)
    /\ p_pc = "input"
    /\ p_first = NoParse
    /\ p_written = <<>>
    /\ p_second = NoParse
    /\ args_ok = TRUE
    /\ use_out_dir = FALSE
    /\ new_dir = <<>>
    /\ old_dir = <<>>
    /\ new_listing = <<>>
    /\ old_listing = <<>>
    /\ pc = "idle"
    /\ MainStart

ParseInput ==
    /\ p_pc = "input"
    /\ p_first' = parse_srt(p_text)
    /\ p_pc' = IF parse_srt(p_text).crashed THEN "crashed" ELSE "parsed"
    /\ UNCHANGED <<p_text, p_written, p_second, mvars>>

WriteParsed ==
    /\ p_pc = "parsed"
    /\ p_written' = write_srt(p_first.entries)
    /\ p_pc' = "written"
    /\ UNCHANGED <<p_text, p_first, p_second, mvars>>

ReparseWritten ==
    /\ p_pc = "written"
    /\ p_second' = parse_srt(p_written)
    /\ p_pc' = IF parse_srt(p_written).crashed THEN "crashed" ELSE "reparsed"
    /\ UNCHANGED <<p_text, p_first, p_written, mvars>>

NextParse ==
    \/ ParseInput
    \/ WriteParsed
    \/ ReparseWritten

SpecParse == InitParse /\ [][NextParse]_vars

(***************************************************************************)
(* What the claims speak of.                                               *)
(***************************************************************************)
\* The positions of entries whose norm_text is t.
Positions(entries, t) == {i \in 1..Len(entries) : entries[i].norm_text = t}

\* Entry j is the Rank-th entry, in file order, with its norm_text.
Rank(entries, j) ==
    Cardinality({i \in 1..j : entries[i].norm_text = entries[j].norm_text})

\* The position of the k-th entry, in file order, whose norm_text is t.
KthWith(entries, t, k) ==
    CHOOSE p \in Positions(entries, t) : Rank(entries, p) = k

\* Old entry j has no counterpart in the new entries: its norm_text is
\* empty, or no new entry has it, or earlier old entries used them all up.
NoMatchCase(old, new, j) ==
    \/ old[j].norm_text = <<>>
    \/ Positions(new, old[j].norm_text) = {}
    \/ Rank(old, j) > Cardinality(Positions(new, old[j].norm_text))

\* The new entry whose timestamp old entry j is due.
Counterpart(old, new, j) == new[KthWith(new, old[j].norm_text, Rank(old, j))]

\* The entries of a file of the new directory, and of a file of the old
\* directory as the run found it.
NewEntriesOf(name) == parse_srt(new_dir[name].content).entries
OldEntriesOf(name) == parse_srt(old_input[name].content).entries

\* The old files written so far, and what each now holds.
Written == {stdout[i].file : i \in {n \in 1..Len(stdout) : stdout[n].kind = "written"}}
Output(name) == IF use_out_dir THEN out_dir[name] ELSE old_dir[name].content

\* new_map.get(make_key(name)), for an old file with a new file.
NewFileFor(name) == new_map[make_key(name)]

\* The timestamps of a sequence of entries.
Stamps(entries) == {entries[i].timestamp : i \in 1..Len(entries)}

\* No two of the new entries have one timestamp and no old entry has a
\* timestamp of a new entry: a timestamp then tells which entry it is from.
StampsTellOrigin(old, new) ==
    /\ Cardinality(Stamps(new)) = Len(new)
    /\ Stamps(old) \cap Stamps(new) = {}

(***************************************************************************)
(* C1: in the resync of a pair, the k-th old entry with a non-empty        *)
(* norm_text t ends with the timestamp of the k-th new entry with          *)
(* norm_text t whenever the new file has at least k such entries, and no   *)
(* timestamp occurrence of the new file goes to two old entries.           *)
(***************************************************************************)
C1_FifoMatch ==
    pc = "resolve" =>
        LET old == OldEntriesOf(of)
            new == new_entries
        IN  /\ \A j \in 1..(ei - 1) :
                  ~NoMatchCase(old, new, j) =>
                      old_entries[j].timestamp = Counterpart(old, new, j).timestamp
            /\ StampsTellOrigin(old, new) =>
                  \A n \in 1..Len(new) :
                      Cardinality({j \in 1..(ei - 1) :
                          old_entries[j].timestamp = new[n].timestamp}) <= 1

\* The resolve loop has ended and a second old entry with one text got the
\* second timestamp of that text, which is not the first one.
C1_Witness ==
    /\ pc = "resolve"
    /\ ei > Len(old_entries)
    /\ \E j \in 1..Len(old_entries) :
          /\ Rank(OldEntriesOf(of), j) = 2
          /\ ~NoMatchCase(OldEntriesOf(of), NewEntriesOf(nf), j)
          /\ old_entries[j].timestamp # old_entries[KthWith(old_entries,
                                            old_entries[j].norm_text, 1)].timestamp
          /\ old_entries[j].timestamp \in Stamps(NewEntriesOf(nf))

(***************************************************************************)
(* C2: an old entry whose norm_text is empty, or is no key of the mapping, *)
(* or whose list earlier old entries exhausted, keeps its timestamp, also  *)
(* in the file written; a "no match" line is printed for it; and the run   *)
(* goes on: the resolve loop raises nothing and the file is written.       *)
(***************************************************************************)
RECURSIVE NoMatchLines(_, _, _, _)
NoMatchLines(old, new, name, j) ==
    IF j = 0 THEN <<>>
    ELSE IF NoMatchCase(old, new, j)
    THEN Append(NoMatchLines(old, new, name, j - 1),
                Msg("no_match", name, <<>>, old[j].index, old[j].norm_text))
    ELSE NoMatchLines(old, new, name, j - 1)

IsNoMatchLine(name, m) == m.kind = "no_match" /\ m.file = name

C2_NoMatchKept ==
    /\ exc # "IndexError in main"
    /\ pc = "resolve" =>
          LET old == OldEntriesOf(of)
              new == NewEntriesOf(nf)
              OfThisFile(m) == IsNoMatchLine(of, m)
          IN  /\ \A j \in 1..(ei - 1) :
                    NoMatchCase(old, new, j) =>
                        old_entries[j].timestamp = old[j].timestamp
              /\ SelectSeq(stdout, OfThisFile) = NoMatchLines(old, new, of, ei - 1)
    /\ pc \in {"old", "done"} /\ of # <<>> => of \in Written
    /\ \A f \in Written :
          LET old == OldEntriesOf(f)
              new == NewEntriesOf(NewFileFor(f))
              out == parse_srt(Output(f)).entries
          IN  /\ Len(out) = Len(old)
              /\ \A j \in 1..Len(old) :
                    NoMatchCase(old, new, j) => out[j].timestamp = old[j].timestamp

\* The run is over, and a file was written that holds an entry whose text
\* the new file has, but less often, and an entry with an empty norm_text.
C2_Witness ==
    /\ pc = "done"
    /\ \E f \in Written :
          LET old == OldEntriesOf(f)
              new == NewEntriesOf(NewFileFor(f))
          IN  /\ \E j \in 1..Len(old) :
                    /\ Positions(new, old[j].norm_text) # {}
                    /\ Rank(old, j) > Cardinality(Positions(new, old[j].norm_text))
              /\ \E j \in 1..Len(old) : old[j].norm_text = <<>>

(***************************************************************************)
(* C3: the entries written for an old file are the entries parsed from it, *)
(* in the same order and number, each with the same index and the same     *)
(* text_lines; the resolver changes nothing but the timestamp.             *)
(***************************************************************************)
SameButTimestamp(a, b) ==
    /\ Len(a) = Len(b)
    /\ \A j \in 1..Len(a) : [a[j] EXCEPT !.timestamp = <<>>]
                            = [b[j] EXCEPT !.timestamp = <<>>]

C3_OnlyTimestampChanges ==
    /\ pc = "resolve" => SameButTimestamp(old_entries, OldEntriesOf(of))
    /\ \A f \in Written :
          /\ ~parse_srt(Output(f)).crashed
          /\ SameButTimestamp(parse_srt(Output(f)).entries, OldEntriesOf(f))

\* A file was written with an entry that has an Arabic line and a new
\* timestamp, after an entry that kept its timestamp.
C3_Witness ==
    \E f \in Written :
        LET old == OldEntriesOf(f)
            out == parse_srt(Output(f)).entries
        IN  /\ Len(out) >= 2
            /\ out[1].timestamp = old[1].timestamp
            /\ out[2].timestamp # old[2].timestamp
            /\ \E l \in 1..Len(out[2].text_lines) : HasArabic(out[2].text_lines[l])

(***************************************************************************)
(* C7 as stated: when files of the new directory share a key, the key maps *)
(* to the last-enumerated of them, and for each collision a warning names  *)
(* the file that was discarded.                                            *)
(***************************************************************************)
\* The mapping loop is over.
Mapped == pc \in {"old", "resolve", "done", "crashed"}

\* The positions of new_listing that hold a file with key k.
FilePositions(k) ==
    {p \in 1..Len(new_listing) :
        new_dir[new_listing[p]].is_file /\ make_key(new_listing[p]) = k}

NewKeys == {make_key(new_listing[p]) :
               p \in {q \in 1..Len(new_listing) : new_dir[new_listing[q]].is_file}}

LastOf(S) == CHOOSE p \in S : \A q \in S : q <= p

\* The earlier files with the key of the file at position q.
Earlier(q) == {p \in FilePositions(make_key(new_listing[q])) : p < q}

\* The positions whose file replaces an earlier file in the mapping.
Colliders ==
    {q \in 1..Len(new_listing) :
        new_dir[new_listing[q]].is_file /\ Earlier(q) # {}}

LastWins ==
    /\ DOMAIN new_map = NewKeys
    /\ \A k \in NewKeys : new_map[k] = new_listing[LastOf(FilePositions(k))]

C7_NamesDiscarded ==
    Mapped =>
        /\ LastWins
        /\ \A q \in Colliders :
              \E i \in 1..Len(stderr) :
                  /\ stderr[i].kind = "duplicate_key"
                  /\ stderr[i].file = new_listing[LastOf(Earlier(q))]

(***************************************************************************)
(* C7 amended: when files of the new directory share a key, the key maps   *)
(* to the last-enumerated of them, and for each collision one warning is   *)
(* emitted, which names the key and the file that replaces the earlier     *)
(* one, not the file discarded.                                            *)
(***************************************************************************)
RECURSIVE CollisionLines(_)
CollisionLines(q) ==
    IF q = 0 THEN <<>>
    ELSE IF q \in Colliders
    THEN Append(CollisionLines(q - 1),
                Msg("duplicate_key", new_listing[q], make_key(new_listing[q]),
                    0, <<>>))
    ELSE CollisionLines(q - 1)

IsDuplicateKeyLine(m) == m.kind = "duplicate_key"

C7_NamesReplacement ==
    Mapped =>
        /\ LastWins
        /\ SelectSeq(stderr, IsDuplicateKeyLine) = CollisionLines(Len(new_listing))

\* Three files of the new directory share a key and the mapping is built.
C7_Witness ==
    /\ Mapped
    /\ \E k \in NewKeys : Cardinality(FilePositions(k)) = 3
    /\ Cardinality(Colliders) = 2

(***************************************************************************)
(* C8: given valid directories the run ends with every old file whose key  *)
(* is in the mapping written exactly once, and every old file whose key is *)
(* not in it reported, not written and not modified.                       *)
(***************************************************************************)
TimesWritten(f) ==
    Cardinality({i \in 1..Len(stdout) :
                    stdout[i].kind = "written" /\ stdout[i].file = f})

C8_AllMatchedWritten ==
    args_ok /\ pc \in {"done", "crashed"} =>
        \A f \in {g \in DOMAIN old_dir : old_dir[g].is_file} :
            IF make_key(f) \in DOMAIN new_map
            THEN TimesWritten(f) = 1
            ELSE /\ TimesWritten(f) = 0
                 /\ f \notin DOMAIN out_dir
                 /\ old_dir[f] = old_input[f]
                 /\ \E i \in 1..Len(stderr) :
                       stderr[i].kind = "skipping" /\ stderr[i].file = f

(***************************************************************************)
(* C9: what is written for an old file depends on that file and its new    *)
(* file only: every entry with a counterpart in the new file has the       *)
(* counterpart's timestamp and every other entry is as it was, whatever    *)
(* pairs were processed before, also when two old files share a key.       *)
(***************************************************************************)
Resynced(old, new) ==
    [j \in 1..Len(old) |->
        IF NoMatchCase(old, new, j) THEN old[j]
        ELSE [old[j] EXCEPT !.timestamp = Counterpart(old, new, j).timestamp]]

C9_PairsIndependent ==
    \A f \in Written :
        parse_srt(Output(f)).entries
            = Resynced(OldEntriesOf(f), NewEntriesOf(NewFileFor(f)))

\* Two old files with one key were written, and an entry of each has the
\* timestamp of the first entry of their new file.
C9_Witness ==
    \E f \in Written, g \in Written :
        /\ f # g
        /\ make_key(f) = make_key(g)
        /\ NewEntriesOf(NewFileFor(f)) # <<>>
        /\ NewEntriesOf(NewFileFor(f))[1].timestamp
              \in Stamps(parse_srt(Output(f)).entries)
                  \cap Stamps(parse_srt(Output(g)).entries)

(***************************************************************************)
(* C10: norm_text is made of the text lines without a character in         *)
(* U+0600..U+06FF only, their words joined by single spaces; an entry all  *)
(* of whose text lines hold such a character (or without text lines) has   *)
(* an empty norm_text, gives its timestamp to no old entry when in the new *)
(* file, and keeps its timestamp when in the old file.                     *)
(***************************************************************************)
NoArabicChar(line) ==
    \A i \in 1..Len(line) : line[i] < ArabicFirst \/ line[i] > ArabicLast

RECURSIVE AllWords(_)
AllWords(lines) ==
    IF lines = <<>> THEN <<>> ELSE Split(Head(lines)) \o AllWords(Tail(lines))

ArabicOnly(e) == \A l \in 1..Len(e.text_lines) : ~NoArabicChar(e.text_lines[l])

NormOfPlainLines(entries) ==
    \A i \in 1..Len(entries) :
        /\ entries[i].norm_text
              = JoinSpace(AllWords(SelectSeq(entries[i].text_lines, NoArabicChar)))
        /\ ArabicOnly(entries[i]) => entries[i].norm_text = <<>>

C10_ArabicExcluded ==
    pc = "resolve" =>
        LET old == OldEntriesOf(of)
            new == NewEntriesOf(nf)
        IN  /\ NormOfPlainLines(new_entries)
            /\ NormOfPlainLines(old_entries)
            /\ \A j \in 1..(ei - 1) :
                  ArabicOnly(old[j]) => old_entries[j].timestamp = old[j].timestamp
            /\ StampsTellOrigin(old, new) =>
                  \A n \in 1..Len(new) :
                      ArabicOnly(new[n]) =>
                          \A j \in 1..(ei - 1) :
                              old_entries[j].timestamp # new[n].timestamp

\* The resolve loop has ended for a new file and an old file that both
\* hold an entry with Arabic lines only, the old file also holding an entry
\* with an Arabic line that got a new timestamp.
C10_Witness ==
    /\ pc = "resolve"
    /\ ei > Len(old_entries)
    /\ \E n \in 1..Len(new_entries) :
          new_entries[n].text_lines # <<>> /\ ArabicOnly(new_entries[n])
    /\ \E j \in 1..Len(old_entries) :
          old_entries[j].text_lines # <<>> /\ ArabicOnly(old_entries[j])
    /\ \E j \in 1..Len(old_entries) :
          /\ ~ArabicOnly(old_entries[j])
          /\ \E l \in 1..Len(old_entries[j].text_lines) :
                ~NoArabicChar(old_entries[j].text_lines[l])
          /\ old_entries[j].timestamp \in Stamps(new_entries)

(***************************************************************************)
(* The blocks of a file as its format defines them: the maximal runs of    *)
(* lines that are not blank, blank lines being separators.                 *)
(***************************************************************************)
RECURSIVE BlocksSplit(_, _, _)
BlocksSplit(lines, block, blocks) ==
    IF lines = <<>>
    THEN IF block = <<>> THEN blocks ELSE Append(blocks, block)
    ELSE IF IsBlank(Head(lines))
         THEN BlocksSplit(Tail(lines), <<>>,
                          IF block = <<>> THEN blocks ELSE Append(blocks, block))
         ELSE BlocksSplit(Tail(lines), Append(block, Head(lines)), blocks)

FormatBlocks(text) == BlocksSplit(ReadText(text), <<>>, <<>>)

\* The first line of the block is an integer.
IndexOk(b) == ParseInt(LStripBOM(b[1])).ok

\* The block has a timestamp line, which matches the pattern.
TimestampOk(b) == Len(b) >= 2 /\ TIMESTAMP_RE(b[2])

HasIndexAndStamp(b) == IndexOk(b) /\ Len(b) >= 2

WellFormed(b) == IndexOk(b) /\ TimestampOk(b)

\* The entries of a sequence of blocks that have an integer index line and
\* a second line.
EntriesOf(blocks) ==
    [i \in 1..Len(blocks) |->
        MakeEntry(ParseInt(LStripBOM(blocks[i][1])).val, blocks[i])]

\* The file starts with a block and one blank line separates its blocks.
SingleSpaced(text) ==
    /\ text # <<>> => ~IsBlank(text[1])
    /\ \A i \in 1..(Len(text) - 1) : ~(IsBlank(text[i]) /\ IsBlank(text[i + 1]))

(***************************************************************************)
(* C4: parsing a file, writing the entries with write_srt and parsing what *)
(* was written gives the entries of the first parse again.                 *)
(***************************************************************************)
C4_RoundTrip ==
    /\ p_pc = "written" => ~parse_srt(p_written).crashed
    /\ p_pc = "reparsed" => p_second.entries = p_first.entries

\* A file went round that has an entry with two text lines and a norm_text,
\* and what was written is not the file that was read.
C4_Witness ==
    /\ p_pc = "reparsed"
    /\ \E i \in 1..Len(p_second.entries) :
          /\ Len(p_second.entries[i].text_lines) = 2
          /\ p_second.entries[i].norm_text # <<>>
    /\ p_written # p_text

(***************************************************************************)
(* C5: a block whose second line does not match the timestamp pattern, or  *)
(* that has no second line, yields no entry and never makes the parse      *)
(* fail, and every well-formed block of the file is returned.              *)
(***************************************************************************)
C5_BadTimestampSkipped ==
    /\ p_pc # "crashed"
    /\ p_pc = "parsed" =>
          /\ \A i \in 1..Len(p_first.entries) :
                TIMESTAMP_RE(p_first.entries[i].timestamp)
          /\ SingleSpaced(p_text) =>
                p_first.entries = EntriesOf(SelectSeq(FormatBlocks(p_text), WellFormed))

(***************************************************************************)
(* C6: a block whose first line is no integer yields no entry and a        *)
(* warning, the parse goes on, and the entries of all other blocks are     *)
(* returned in file order.                                                 *)
(***************************************************************************)
C6_BadIndexSkipped ==
    (p_pc = "parsed" /\ \E i \in 1..Len(FormatBlocks(p_text)) :
                            ~IndexOk(FormatBlocks(p_text)[i])) =>
        /\ p_first.entries
              = EntriesOf(SelectSeq(FormatBlocks(p_text), HasIndexAndStamp))
        /\ Len(p_first.warnings)
              >= Cardinality({i \in 1..Len(FormatBlocks(p_text)) :
                                 ~IndexOk(FormatBlocks(p_text)[i])})

=============================================================================
